---------------------------- MODULE Spec2Model ----------------------------
(***************************************************************************)
(* Model of src/app.py, the study-session dashboard: the session store     *)
(* (add_session, delete_session, store_to_flat_rows), the time arithmetic  *)
(* (parse_time_hhmm, minutes_between), the KPI engine (compute_kpis), the  *)
(* weekday aggregation and the script run of the page (save batch, import  *)
(* block, delete buttons).                                                 *)
(*                                                                         *)
(* Representation.                                                         *)
(*  - A date is its proleptic Gregorian ordinal (date.toordinal()); the    *)
(*    "%Y-%m-%d" string of a date is injective and order preserving, so    *)
(*    the bucket key ds is represented by the same ordinal.                *)
(*  - A time string "hh:mm" is the record [hh |-> h, mm |-> m] of the two  *)
(*    numbers it spells; strptime("%H:%M") accepts it iff h is in 0..23    *)
(*    and m is in 0..59.                                                   *)
(*  - A Python dict is a TLA+ function / record; `k in d` is               *)
(*    k \in DOMAIN d and d.get(k, v) is Get(d, k, v).                      *)
(***************************************************************************)
EXTENDS Integers, Sequences, FiniteSets, TLC

VARIABLES
    store,   \* st.session_state.store : [days |-> (ds :> [weekday, sessions])]
    up,      \* the file held by st.file_uploader, or NoFile
    clock,   \* wall clock in minutes, what now_str() prints
    last     \* the last call or script run and what it returned

vars == <<store, up, clock, last>>

----------------------------------------------------------------------------
(* Bounds of the model *)

MaxSessions == 3   \* records the store holds at most (guard of the add actions)
MaxClock    == 1   \* last minute the clock reaches
MaxBatch    == 2   \* sessions in one save batch (the page allows 1..20)
MaxRows     == 3   \* rows of a data frame handed to compute_kpis / the weekday table

----------------------------------------------------------------------------
(* Helpers: app.py lines 11-31 *)

\* the seven Korean weekday labels of line 11, Monday first, spelled in ASCII
WEEK_ORDER == <<"Mon", "Tue", "Wed", "Thu", "Fri", "Sat", "Sun">>

WEEKDAY_MAP == [i \in 0..6 |-> WEEK_ORDER[i + 1]]

\* date.weekday() is (toordinal() + 6) % 7
weekday_kr(d) == WEEKDAY_MAP[(d + 6) % 7]

Get(r, k, default) == IF k \in DOMAIN r THEN r[k] ELSE default

Max2(a, b) == IF a >= b THEN a ELSE b
Min2(a, b) == IF a <= b THEN a ELSE b

\* str.strip(): the model's strings carry blanks only as the all-blank string
str_strip(s) == IF s = " " THEN "" ELSE s

\* datetime.strptime(t, "%H:%M") raises ValueError unless 0 <= hh <= 23, 0 <= mm <= 59
ParseOk(t) == t.hh \in 0..23 /\ t.mm \in 0..59

\* the parsed datetime (1900-01-01 hh:mm), as seconds since that midnight
parse_time_hhmm(t) == (t.hh * 60 + t.mm) * 60

minutes_between_bug(start, end) ==
    LET s == parse_time_hhmm(start)
        e == parse_time_hhmm(end)
        e2 == IF e < s THEN e + 86400 ELSE e
    IN  (e2 - s) \div 60

\* defined when ParseOk(start) /\ ParseOk(end); raises otherwise
minutes_between(start, end) ==
    LET s == parse_time_hhmm(start)
        e == parse_time_hhmm(end)
        e2 == IF e <= s THEN e + 86400 ELSE e
    IN  (e2 - s) \div 60

clamp_bug(v, lo, hi) == Max2(lo, v)

clamp(v, lo, hi) == Max2(lo, Min2(hi, v))

now_str == clock

----------------------------------------------------------------------------
(* Session store: app.py lines 33-92 *)

init_store == [days |-> <<>>]

\* hash((ds, start, subject, now_str())): within one process a function of
\* the tuple alone (equal tuples hash equally); the model fixes one such
\* function, a polynomial of the tuple's components
SubjectCode(subject) == CASE subject = "" -> 1 [] subject = " " -> 2 [] OTHER -> 3

py_hash(ds, start, subject, now) ==
    ds * 31 + start.hh * 101 + start.mm * 7 + SubjectCode(subject) * 1013 + now * 17

Abs(x) == IF x < 0 THEN -x ELSE x

\* abs(hash(...)) % 10000, the four digits that end the id
HashMod(ds, start, subject, now) == Abs(py_hash(ds, start, subject, now)) % 10000

\* the id string "<YYYYMMDD>-<hhmm>-<4 digits>", as the triple it spells
SessionId(ds, start, subject, now) == <<ds, start, HashMod(ds, start, subject, now)>>

\* lines 62-63: the bucket is created before the times are parsed
WithBucket(days, d) ==
    IF d \in DOMAIN days THEN days
    ELSE days @@ (d :> [weekday |-> weekday_kr(d), sessions |-> <<>>])

NewSession(d, subject, start, end, pause, focused) ==
    LET dur == minutes_between(start, end)
    IN  [id           |-> SessionId(d, start, subject, now_str),
         subject      |-> IF str_strip(subject) = "" THEN "study" ELSE str_strip(subject),
         start        |-> start,
         end          |-> end,
         duration_min |-> dur,
         focused_min  |-> clamp(focused, 0, dur),
         pause_count  |-> Max2(0, pause),
         created_at   |-> now_str]

\* add_session: [store, raised]; raised is the ValueError of line 65.  The two
\* now_str() calls of lines 69 and 78 read the same minute.
add_session(st, d, subject, start, end, pause, focused) ==
    LET days1 == WithBucket(st.days, d)
    IN  IF ~(ParseOk(start) /\ ParseOk(end))
        THEN [store |-> [days |-> days1], raised |-> TRUE]
        ELSE [store |-> [days |-> [days1 EXCEPT ![d].sessions =
                            Append(@, NewSession(d, subject, start, end, pause, focused))]],
              raised |-> FALSE]

KeepOthers(sessions, session_id) ==
    SelectSeq(sessions, LAMBDA s : Get(s, "id", "") # session_id)

delete_session_bug(st, session_id) ==
    [days |-> [ds \in DOMAIN st.days |->
        [st.days[ds] EXCEPT !.sessions = KeepOthers(st.days[ds].sessions, session_id)]]]

delete_session(st, session_id) ==
    LET days == st.days
        filtered == [ds \in DOMAIN days |->
                        [days[ds] EXCEPT !.sessions = KeepOthers(days[ds].sessions, session_id)]]
        empty == {ds \in DOMAIN days :
                    /\ Len(days[ds].sessions) # Len(filtered[ds].sessions)
                    /\ Len(filtered[ds].sessions) = 0}
    IN  [days |-> [ds \in (DOMAIN days) \ empty |-> filtered[ds]]]

----------------------------------------------------------------------------
(* Views of the store used by the properties *)

RECURSIVE SumOver(_, _)
SumOver(S, f) ==
    IF S = {} THEN 0
    ELSE LET x == CHOOSE y \in S : TRUE IN f[x] + SumOver(S \ {x}, f)

Count(st) == SumOver(DOMAIN st.days, [ds \in DOMAIN st.days |-> Len(st.days[ds].sessions)])

\* the positions <<ds, i>> of the records of the store
Slots(st) ==
    UNION {{<<ds, i>> : i \in 1..Len(st.days[ds].sessions)} : ds \in DOMAIN st.days}

RecordAt(st, p) == st.days[p[1]].sessions[p[2]]

StoreIds(st) == {RecordAt(st, p).id : p \in Slots(st)}

----------------------------------------------------------------------------
(* Arguments of the calls *)

DateArgs == {738886, 738887}       \* 2024-01-01 (a Monday) and 2024-01-02

T(h, m) == [hh |-> h, mm |-> m]

\* (subject, start, end, pause, focused) of a direct call of add_session
SessionArgs ==
    { [subject |-> "math", start |-> T(10, 0),  end |-> T(11, 0), pause |-> 2,  focused |-> 500],
      [subject |-> "math", start |-> T(10, 0),  end |-> T(11, 0), pause |-> -1, focused |-> -10],
      [subject |-> "",     start |-> T(23, 30), end |-> T(0, 15), pause |-> 0,  focused |-> 30],
      [subject |-> " ",    start |-> T(10, 0),  end |-> T(10, 0), pause |-> 1,  focused |-> 2000] }

\* the same with a start or an end that is no HH:MM
BadTimeArgs ==
    { [subject |-> "math", start |-> T(25, 0),  end |-> T(11, 0), pause |-> 0, focused |-> 0],
      [subject |-> "math", start |-> T(10, 0),  end |-> T(11, 60), pause |-> 0, focused |-> 0] }

NoFile == [kind |-> "none"]

NoId == <<0, T(0, 0), 0>>          \* an id no record carries

Init ==
    /\ store = init_store
    /\ up = NoFile
    /\ clock = 0
    /\ last = [op |-> "init"]

Tick ==
    /\ clock < MaxClock
    /\ clock' = clock + 1
    /\ last' = [op |-> "tick"]
    /\ UNCHANGED <<store, up>>

\* a call add_session(...) whose times parse
AddSession ==
    \E d \in DateArgs, a \in SessionArgs :
        LET r == add_session(store, d, a.subject, a.start, a.end, a.pause, a.focused)
        IN  /\ Count(store) < MaxSessions
            /\ store' = r.store
            /\ last' = [op |-> "add_session", raised |-> r.raised, d |-> d, args |-> a]
            /\ UNCHANGED <<up, clock>>

\* a call add_session(...) with a start or end that is no HH:MM
AddSessionBadTime ==
    \E d \in DateArgs, a \in BadTimeArgs :
        LET r == add_session(store, d, a.subject, a.start, a.end, a.pause, a.focused)
        IN  /\ store' = r.store
            /\ last' = [op |-> "add_session", raised |-> r.raised, d |-> d, args |-> a]
            /\ UNCHANGED <<up, clock>>

DeleteSession ==
    \E sid \in StoreIds(store) \cup {NoId} :
        /\ store' = delete_session(store, sid)
        /\ last' = [op |-> "delete_session", id |-> sid]
        /\ UNCHANGED <<up, clock>>

\* any sequence of add_session and delete_session calls from the empty store
NextStore == AddSession \/ AddSessionBadTime \/ DeleteSession \/ Tick

SpecStore == Init /\ [][NextStore]_vars

\* any sequence of successful calls
NextStoreOk == AddSession \/ DeleteSession \/ Tick

SpecStoreOk == Init /\ [][NextStoreOk]_vars

----------------------------------------------------------------------------
(* Flattening, KPI engine and weekday table: app.py lines 38-57, 94-114,   *)
(* 220-221 and 287-293                                                     *)

RECURSIVE SortedSeq(_)
\* sorted(days.keys())
SortedSeq(S) ==
    IF S = {} THEN <<>>
    ELSE LET m == CHOOSE x \in S : \A y \in S : x <= y
         IN  <<m>> \o SortedSeq(S \ {m})

FlatRow(date_str, wd, s) ==
    [id           |-> Get(s, "id", ""),
     date         |-> date_str,
     weekday      |-> wd,
     subject      |-> Get(s, "subject", ""),
     start        |-> Get(s, "start", ""),
     end          |-> Get(s, "end", ""),
     duration_min |-> Get(s, "duration_min", 0),
     focused_min  |-> Get(s, "focused_min", 0),
     pause_count  |-> Get(s, "pause_count", 0),
     created_at   |-> Get(s, "created_at", "")]

DayRows(days, date_str) ==
    LET day == days[date_str]
        wd == Get(day, "weekday", "")
        sessions == Get(day, "sessions", <<>>)
    IN  [i \in 1..Len(sessions) |-> FlatRow(date_str, wd, sessions[i])]

RECURSIVE ConcatDays(_, _)
ConcatDays(days, keys) ==
    IF keys = <<>> THEN <<>>
    ELSE DayRows(days, Head(keys)) \o ConcatDays(days, Tail(keys))

store_to_flat_rows(st) ==
    LET days == Get(st, "days", <<>>)
    IN  ConcatDays(days, SortedSeq(DOMAIN days))

\* lines 220-221: the rows whose date lies in [start_date, end_date]
FilterRange(rows, start_date, end_date) ==
    SelectSeq(rows, LAMBDA r : r.date >= start_date /\ r.date <= end_date)

RECURSIVE SeqSum(_)
\* Series.sum(): the sum of a column
SeqSum(col) ==
    IF col = <<>> THEN 0 ELSE Head(col) + SeqSum(Tail(col))

\* df[name]
Column(df, name) == [i \in 1..Len(df) |-> df[i][name]]

focused_clamped(r) == clamp(r.focused_min, 0, r.duration_min)

\* a Python float quotient a / b, kept exact as the fraction it is
Frac(a, b) == [num |-> a, den |-> b]

\* compute_kpis: "None" for an empty frame
compute_kpis(df) ==
    IF df = <<>> THEN [none |-> TRUE]
    ELSE LET total   == SeqSum(Column(df, "duration_min"))
             focused == SeqSum([i \in 1..Len(df) |-> focused_clamped(df[i])])
             pause   == SeqSum(Column(df, "pause_count"))
             ratio   == IF total > 0 THEN Frac(focused, total) ELSE Frac(0, 1)
         IN  [none       |-> FALSE,
              total      |-> total,
              focused    |-> focused,
              pause      |-> pause,
              ratio      |-> ratio,
              avg_focus  |-> Frac(ratio.num * 5, ratio.den),
              pause_rate |-> IF total > 0 THEN Frac(pause * 60, total) ELSE Frac(0, 1),
              sessions   |-> Len(df)]

\* groupby("weekday")["focused_clamped"].sum(): one sum per label that occurs
GroupSums(fdf) ==
    [w \in {fdf[i].weekday : i \in 1..Len(fdf)} |->
        LET grp == SelectSeq(fdf, LAMBDA r : r.weekday = w)
        IN  SeqSum([i \in 1..Len(grp) |-> focused_clamped(grp[i])])]

\* .reindex(WEEK_ORDER, fill_value=0).reset_index(): the rows of by_w
weekday_table(fdf) ==
    LET g == GroupSums(fdf)
    IN  [i \in 1..Len(WEEK_ORDER) |->
            [weekday         |-> WEEK_ORDER[i],
             focused_min_sum |-> IF WEEK_ORDER[i] \in DOMAIN g THEN g[WEEK_ORDER[i]] ELSE 0]]

----------------------------------------------------------------------------
(* The page: one action per run of the script, app.py lines 119-328 *)

\* what the sidebar's widgets of one session hold; the number inputs keep
\* pause in 0..999 and focused in 0..5000
UiInputs ==
    { [subject |-> "study", start |-> T(10, 0),  end |-> T(11, 0), pause |-> 0, focused |-> 0],
      [subject |-> "math",  start |-> T(23, 30), end |-> T(0, 15), pause |-> 2, focused |-> 500],
      [subject |-> "math",  start |-> T(25, 0),  end |-> T(11, 0), pause |-> 0, focused |-> 0] }

Batches == UNION {[1..n -> UiInputs] : n \in 1..MaxBatch}

\* lines 150-154: dur_val is None when minutes_between raises
DurValIsNone(inp) == ~(ParseOk(inp.start) /\ ParseOk(inp.end))

RECURSIVE SaveLoop(_, _, _)
\* lines 164-171: [store, saved, errors, ids] after the inputs from i on
SaveLoop(acc, d, inputs) ==
    IF inputs = <<>> THEN acc
    ELSE LET inp == Head(inputs)
         IN  IF DurValIsNone(inp)
             THEN SaveLoop([acc EXCEPT !.errors = @ + 1], d, Tail(inputs))
             ELSE SaveLoop(
                    [store  |-> add_session(acc.store, d, inp.subject, inp.start, inp.end,
                                            inp.pause, inp.focused).store,
                     saved  |-> acc.saved + 1,
                     errors |-> acc.errors,
                     ids    |-> acc.ids \cup {SessionId(d, inp.start, inp.subject, now_str)}],
                    d, Tail(inputs))

\* documents a user may upload: what json.loads(up.read().decode("utf-8")) makes of them
GoodRecord ==
    [id           |-> <<738886, T(10, 0), 1234>>,
     subject      |-> "math",
     start        |-> T(10, 0),
     end          |-> T(11, 0),
     duration_min |-> 60,
     focused_min  |-> 30,
     pause_count  |-> 1,
     created_at   |-> 0]

OddRecord ==
    [id           |-> <<738892, T(9, 0), 4321>>,
     subject      |-> "kor",
     start        |-> T(9, 0),
     end          |-> T(8, 0),
     duration_min |-> -50,
     focused_min  |-> 70,
     pause_count  |-> 0,
     created_at   |-> 0]

SnapshotA == (738886 :> [weekday |-> "Mon", sessions |-> <<GoodRecord>>])

SnapshotB == (738886 :> [weekday |-> "Mon", sessions |-> <<GoodRecord>>])
                @@ (738892 :> [sessions |-> <<OddRecord>>])

Documents ==
    { [kind |-> "file", parses |-> FALSE],
      [kind |-> "file", parses |-> TRUE, isdict |-> FALSE, obj |-> <<1, 2>>],
      [kind |-> "file", parses |-> TRUE, isdict |-> TRUE, obj |-> [sessions |-> <<>>]],
      [kind |-> "file", parses |-> TRUE, isdict |-> TRUE, obj |-> [days |-> SnapshotA]],
      [kind |-> "file", parses |-> TRUE, isdict |-> TRUE,
       obj |-> [days |-> SnapshotB, version |-> 1]] }

\* line 188: isinstance(obj, dict) and "days" in obj, for a document that parses
Accepted(f) == f.kind = "file" /\ f.parses /\ f.isdict /\ "days" \in DOMAIN f.obj

import_block_bug(st, f, readable) ==
    IF f = NoFile \/ ~readable \/ ~f.parses \/ ~f.isdict THEN st
    ELSE IF "days" \in DOMAIN f.obj
         THEN [days |-> f.obj.days @@ st.days]
         ELSE [days |-> <<>>]

\* lines 184-194; readable: up.read() returns the file's bytes (it returns b"" and
\* json.loads raises when the stream of a reused UploadedFile is at its end)
import_block(st, f, readable) ==
    IF f = NoFile THEN st
    ELSE IF ~readable \/ ~f.parses THEN st
    ELSE IF f.isdict /\ "days" \in DOMAIN f.obj THEN [days |-> f.obj.days]
    ELSE st

\* the save button: the save loop, then the import block
RunSave ==
    \E d \in DateArgs, inputs \in Batches :
        LET r == SaveLoop([store |-> store, saved |-> 0, errors |-> 0, ids |-> {}], d, inputs)
        IN  /\ Count(store) + Len(inputs) <= MaxSessions
            /\ store' = import_block(r.store, up, TRUE)
            /\ last' = [op |-> "save", saved |-> r.saved, errors |-> r.errors, ids |-> r.ids]
            /\ UNCHANGED <<up, clock>>

\* a file is dropped on the uploader: the run's import block reads it
RunUpload ==
    \E f \in Documents :
        /\ up' = f
        /\ store' = import_block(store, f, TRUE)
        /\ last' = [op |-> "upload", accepted |-> Accepted(f), had |-> Count(store)]
        /\ UNCHANGED clock

\* the file is removed from the uploader
RunClear ==
    /\ up # NoFile
    /\ up' = NoFile
    /\ last' = [op |-> "clear"]
    /\ UNCHANGED <<store, clock>>

\* any other widget interaction reruns the script
RunRerun ==
    /\ store' = import_block(store, up, TRUE)
    /\ last' = [op |-> "rerun"]
    /\ UNCHANGED <<up, clock>>

\* a delete button of the session list: the run reaches the list (import block
\* first), deletes, and st.rerun() runs the script once more; whether the second
\* run's up.read() starts at the beginning is the framework's choice
RunDelete ==
    \E readable \in BOOLEAN :
        LET st1  == import_block(store, up, TRUE)
            rows == store_to_flat_rows(st1)
        IN  \E i \in 1..Len(rows) :
                /\ store' = import_block(delete_session(st1, rows[i].id), up, readable)
                /\ last' = [op |-> "delete", id |-> rows[i].id]
                /\ UNCHANGED <<up, clock>>

Next == RunSave \/ RunUpload \/ RunClear \/ RunRerun \/ RunDelete \/ Tick

Spec == Init /\ [][Next]_vars

----------------------------------------------------------------------------
(* The pure functions, applied to inputs drawn from bounded sets *)

MinuteSamples == {0, 1, 15, 29, 30, 31, 59, 60}

\* every "hh:mm" with hh in 0..24 and mm in 0..60; 24:mm and hh:60 do not parse
AllTimeStrings == {T(h, m) : h \in 0..24, m \in 0..60}

\* those whose minute is a sample
TimeStrings == {T(h, m) : h \in 0..24, m \in MinuteSamples}

CallMinutesBetween ==
    /\ last.op = "init"
    /\ \E start \in AllTimeStrings, end \in TimeStrings :
        /\ last' = IF ParseOk(start) /\ ParseOk(end)
                   THEN [op |-> "minutes_between", start |-> start, end |-> end,
                         raised |-> FALSE, minutes |-> minutes_between(start, end)]
                   ELSE [op |-> "minutes_between", start |-> start, end |-> end,
                         raised |-> TRUE]
        /\ UNCHANGED <<store, up, clock>>

SpecTime == Init /\ [][CallMinutesBetween]_vars

\* rows of a frame whose numbers are arbitrary integers (imported records)
KpiRows ==
    [duration_min : {-50, 0, 60, 100}, focused_min : {-10, 30, 100}, pause_count : {-1, 2}]

Frames(R) == UNION {[1..n -> R] : n \in 1..MaxRows}

CallComputeKpis ==
    /\ last.op = "init"
    /\ \E df \in Frames(KpiRows) \cup {<<>>} :
        /\ last' = [op |-> "compute_kpis", df |-> df, kpi |-> compute_kpis(df)]
        /\ UNCHANGED <<store, up, clock>>

SpecKpi == Init /\ [][CallComputeKpis]_vars

\* stores as an import can leave them: per date no bucket, or a bucket whose
\* weekday label is the date's, another string, or missing
ChartDates == {738886, 738888, 738892}     \* a Monday, the Wednesday and the Sunday after it

ChartSessions ==
    { <<GoodRecord>>, <<OddRecord>>, <<GoodRecord, [GoodRecord EXCEPT !.focused_min = 500]>> }

ChartBuckets(d) ==
    {[weekday |-> w, sessions |-> ss] : w \in {weekday_kr(d), "Monday"}, ss \in ChartSessions}
        \cup {[sessions |-> ss] : ss \in ChartSessions}

ChartStores ==
    UNION {{[days |-> days] : days \in {f \in [D -> UNION {ChartBuckets(d) : d \in D}] :
                                            \A d \in D : f[d] \in ChartBuckets(d)}}
            : D \in (SUBSET ChartDates) \ {{}}}

CallWeekdayTable ==
    /\ last.op = "init"
    /\ \E st \in ChartStores, start_date \in ChartDates, end_date \in ChartDates :
        LET fdf == FilterRange(store_to_flat_rows(st), start_date, end_date)
        IN  /\ start_date <= end_date
            /\ fdf # <<>>
            /\ last' = [op |-> "weekday_table", fdf |-> fdf, by_w |-> weekday_table(fdf)]
            /\ UNCHANGED <<store, up, clock>>

SpecChart == Init /\ [][CallWeekdayTable]_vars

----------------------------------------------------------------------------
(* Properties *)

Records(st) == {RecordAt(st, p) : p \in Slots(st)}

\* the record the last add_session appended: the last one of its date's bucket
LastAdded == LET ss == store.days[last.d].sessions IN ss[Len(ss)]

\* C1 (SpecStore): no two records of the store, in the same or in different
\* date buckets, carry the same id.
UniqueIds ==
    \A p \in Slots(store), q \in Slots(store) :
        p # q => RecordAt(store, p).id # RecordAt(store, q).id

\* C2 (SpecStoreOk): every stored record has duration_min >= 0,
\* 0 <= focused_min <= duration_min and pause_count >= 0, and the record an
\* add has just stored holds the raw focus cut to [0, duration_min] (500 of a
\* 60 minute session is stored as 60, -10 as 0) and the pause count floored at 0.
RecordInvariant ==
    /\ \A r \in Records(store) :
        /\ r.duration_min >= 0
        /\ 0 <= r.focused_min /\ r.focused_min <= r.duration_min
        /\ r.pause_count >= 0
    /\ (last.op = "add_session" /\ ~last.raised) =>
        LET r   == LastAdded
            raw == last.args.focused
        IN  /\ r.focused_min = IF raw < 0 THEN 0
                               ELSE IF raw > r.duration_min THEN r.duration_min
                               ELSE raw
            /\ r.pause_count = IF last.args.pause < 0 THEN 0 ELSE last.args.pause

\* C2 witness: a 60 minute session added with raw focus 500 is stored with
\* focused_min 60, beside a record whose raw focus -10 was stored as 0.
ClampedAddStored ==
    /\ last.op = "add_session" /\ ~last.raised
    /\ last.args.focused = 500
    /\ LastAdded.duration_min = 60 /\ LastAdded.focused_min = 60
    /\ \E r \in Records(store) : r.focused_min = 0 /\ r.pause_count = 0

\* C3 (SpecStore): delete_session(id) lowers the number of records by 0 or 1,
\* leaves every record with another id in place, unchanged and in the same
\* order within its bucket, and leaves the store as it was when no record
\* carries the id.
DeleteRemovesAtMostOne ==
    [][last'.op = "delete_session" =>
        /\ Count(store') \in {Count(store), Count(store) - 1}
        /\ DOMAIN store'.days \subseteq DOMAIN store.days
        /\ \A ds \in DOMAIN store.days :
              KeepOthers(store.days[ds].sessions, last'.id)
                = IF ds \in DOMAIN store'.days THEN store'.days[ds].sessions ELSE <<>>
        /\ (last'.id \notin StoreIds(store) => store' = store)]_vars

\* C4 (SpecStoreOk): every date bucket of the store holds at least one record.
NoEmptyBucket ==
    \A ds \in DOMAIN store.days : Len(store.days[ds].sessions) >= 1

\* C4 witness: a delete that removed a date's last record has left the store
\* without that date's key (here without any key).
LastRecordDeletedPrunesDate ==
    /\ last.op = "delete_session"
    /\ last.id # NoId
    /\ DOMAIN store.days = {}

\* C5 (Spec): after a run that only attempts the import (a file dropped on the
\* uploader, or a rerun with the file held) the store is the store of before
\* when the document does not parse, is no object or lacks "days", and is
\* exactly {"days": <the document's days>} otherwise.
ImportAllOrNothing ==
    [][last'.op \in {"upload", "rerun"} =>
        IF Accepted(up')
        THEN store' = [days |-> up'.obj.days]
        ELSE store' = store]_vars

\* C5 witness: an accepted upload has replaced a store that held records by
\* the document's days mapping.
AcceptedUploadReplaced ==
    /\ last.op = "upload" /\ last.accepted /\ last.had >= 1
    /\ store = [days |-> up.obj.days]
    /\ "version" \in DOMAIN up.obj

InUnit(q) == 0 <= q.num /\ q.num <= q.den

\* C6 (SpecKpi): for a non-empty frame of records with arbitrary integer
\* fields, 0 <= focused <= total when total > 0, so ratio is in [0,1] and
\* avg_focus in [0,5]; when total is not > 0, ratio and avg_focus are 0.
KpiBounds ==
    (last.op = "compute_kpis" /\ ~last.kpi.none) =>
        LET k == last.kpi
        IN  IF k.total > 0
            THEN /\ 0 <= k.focused /\ k.focused <= k.total
                 /\ InUnit(k.ratio)
                 /\ 0 <= k.avg_focus.num /\ k.avg_focus.num <= 5 * k.avg_focus.den
            ELSE k.ratio.num = 0 /\ k.avg_focus.num = 0

\* C7 (SpecChart): the weekday table has the 7 entries of WEEK_ORDER in that
\* order, each the sum of the clamped focus of the records with that label,
\* and the 7 entries sum to the clamped focus of all records of the input.
WeekdayTableSums ==
    last.op = "weekday_table" =>
        LET fdf == last.fdf
            t   == last.by_w
            clamped(r) == IF r.focused_min < 0 THEN 0
                          ELSE IF r.focused_min > r.duration_min
                               THEN (IF r.duration_min < 0 THEN 0 ELSE r.duration_min)
                               ELSE r.focused_min
            of(w) == SeqSum([i \in 1..Len(fdf) |->
                                IF fdf[i].weekday = w THEN clamped(fdf[i]) ELSE 0])
        IN  /\ Len(t) = 7
            /\ \A i \in 1..7 : t[i].weekday = WEEK_ORDER[i] /\ t[i].focused_min_sum = of(WEEK_ORDER[i])
            /\ SeqSum(Column(t, "focused_min_sum"))
                 = SeqSum([i \in 1..Len(fdf) |-> clamped(fdf[i])])

Minute(t) == t.hh * 60 + t.mm

\* C8 (SpecTime): for valid HH:MM strings minutes_between is end - start when
\* end is later in the day than start and end - start + 1440 otherwise; it is
\* in 1..1440 and is 1440 when start equals end; (10:00, 11:30) gives 90 and
\* (23:30, 00:15) gives 45.
MinutesBetweenCorrect ==
    (last.op = "minutes_between" /\ ~last.raised) =>
        LET s == Minute(last.start)
            e == Minute(last.end)
        IN  /\ e > s  => last.minutes = e - s
            /\ e <= s => last.minutes = e - s + 1440
            /\ last.minutes \in 1..1440
            /\ last.start = last.end => last.minutes = 1440
            /\ (last.start = T(10, 0) /\ last.end = T(11, 30)) => last.minutes = 90
            /\ (last.start = T(23, 30) /\ last.end = T(0, 15)) => last.minutes = 45

\* C8 witness: minutes_between("10:00", "10:00") has returned 1440.
SameTimeIsFullDay ==
    /\ last.op = "minutes_between" /\ ~last.raised
    /\ last.start = T(10, 0) /\ last.end = T(10, 0)
    /\ last.minutes = 1440

\* C9 (SpecStore): an add_session whose start or end does not parse raises
\* and leaves the store as it was; no bucket is created for the date.
RejectedAddLeavesNoTrace ==
    [][(last'.op = "add_session" /\ last'.raised) => store' = store]_vars

\* C10 (Spec): the sessions a save run stored are in the store at the end of
\* that run, the session a delete run removed is absent after the rerun that
\* follows, and a mere rerun neither drops nor brings back a record, also
\* while the uploader holds a file.
MutationsSurviveReruns ==
    [][/\ last'.op = "save" => last'.ids \subseteq StoreIds(store')
       /\ last'.op = "delete" => last'.id \notin StoreIds(store')
       /\ last'.op = "rerun" => StoreIds(store') = StoreIds(store)]_vars

=============================================================================
